---------------------------- MODULE Spec2Model ----------------------------
(***************************************************************************)
(* Template-to-document-part pipeline of go-mail (msg_template.go).        *)
(*                                                                         *)
(* A Msg owns a primary body slot, a sequence of alternative bodies, a     *)
(* sequence of attachments and a sequence of embeds.  Eight operations     *)
(* (SetBody/AddAlternative/Attach/Embed x Text/HTML) render a template     *)
(* into a buffer and, when rendering succeeded, install the buffer in the  *)
(* message.  Errors are modelled as cause chains: a sequence of messages,  *)
(* outermost first, the empty sequence being Go's nil error.               *)
(***************************************************************************)
EXTENDS Naturals, Sequences, FiniteSets

VARIABLES
    m,       \* the Msg: [body, alternatives, attachments, embeds]
    execs,   \* number of template-engine executions so far (a spy engine)
    ret,     \* the error returned by the last call (<<>> is nil)
    call,    \* the arguments of the last call: [op, name, tpl, data]
    log,     \* history: the calls that returned nil, in order
    sinks    \* history: what each serialization pass wrote, one sink per producer

vars == <<m, execs, ret, call, log, sinks>>

---------------------------------------------------------------------------
(* Bounds of the model *)

\* engine executions explored (calls with a nil template do not count)
MaxExecs == 2

\* serialization passes explored
MaxPasses == 2

---------------------------------------------------------------------------
(* Inputs *)

NilTpl == <<>>

\* A template is a sequence of nodes: "text" is literal template text,
\* "field" prints the data value, "bad" is an action whose evaluation fails
\* (a missing field or key).  NilTpl is the nil template pointer.
TplGreeting == <<"text", "field">>
TplBroken == <<"field", "bad">>

Templates == {NilTpl, TplGreeting, TplBroken}

\* Data values: one harmless, one markup-significant.
Data == {"a", "<"}

Names == {"f.txt", "g.txt"}

NoName == ""

---------------------------------------------------------------------------
(* Errors *)

Nil == <<>>

errTplPointerNil == <<"template pointer is nil">>

errTplExecuteFailed(err) == <<"failed to execute template">> \o err

errAttachFailed(err) == <<"failed to attach template">> \o err

errEmbedFailed(err) == <<"failed to embed template">> \o err

\* the innermost error of a cause chain
RootCause(err) == err[Len(err)]

---------------------------------------------------------------------------
(* Content types *)

TypeTextPlain == "text/plain"

TypeTextHTML == "text/html"

---------------------------------------------------------------------------
(* The template engines (text/template and html/template) *)

\* the bytes of a literal template text node
Literal == <<"<", "p", ">">>

\* the engine's own failure for a node it cannot evaluate
errEngine == <<"can't evaluate field">>

\* html/template's sanitization of a data byte printed in HTML text
HTMLEscape(c) == IF c = "<" THEN <<"&", "l", "t", ";">> ELSE <<c>>

\* Execution walks the nodes in order, writing each node's output to the
\* buffer as it goes: a failure leaves what was written so far in the buffer.
RECURSIVE Walk(_, _, _, _, _)
Walk(tpl, data, escape, i, buffer) ==
    IF i > Len(tpl) THEN [out |-> buffer, err |-> Nil]
    ELSE IF tpl[i] = "text" THEN Walk(tpl, data, escape, i + 1, buffer \o Literal)
    ELSE IF tpl[i] = "field"
         THEN Walk(tpl, data, escape, i + 1,
                   buffer \o (IF escape THEN HTMLEscape(data) ELSE <<data>>))
    ELSE [out |-> buffer, err |-> errEngine]

\* (*text/template.Template).Execute into an empty buffer
TextExecute(tpl, data) == Walk(tpl, data, FALSE, 1, <<>>)

\* (*html/template.Template).Execute into an empty buffer
HTMLExecute(tpl, data) == Walk(tpl, data, TRUE, 1, <<>>)

---------------------------------------------------------------------------
(* The Msg and its collaborators *)

EmptyMsg == [body |-> <<>>, alternatives |-> <<>>, attachments |-> <<>>, embeds |-> <<>>]

NoFile == [Name |-> NoName, Writer |-> [buf |-> <<>>, off |-> 0]]

\* A content producer closed over the rendered buffer: the bytes and the
\* read offset of the buffer it holds.
writeFuncFromBuffer(buffer) == [buf |-> buffer, off |-> 0]

\* Mutant: the producer drains the buffer it holds, as a reader would.
WriteFunc_Consume(w) ==
    [out |-> SubSeq(w.buf, w.off + 1, Len(w.buf)), w |-> [w EXCEPT !.off = Len(w.buf)]]

\* Invoking a producer on a sink: what the sink receives and the producer
\* afterwards.  The unread bytes are written and stay unread.
WriteFunc(w) == [out |-> SubSeq(w.buf, w.off + 1, Len(w.buf)), w |-> w]

\* Replaces the primary body slot.
SetBodyWriter(msg, contentType, writeFunc) ==
    [msg EXCEPT !.body = <<[contentType |-> contentType, writeFunc |-> writeFunc]>>]

\* Appends to the alternative bodies.
AddAlternativeWriter(msg, contentType, writeFunc) ==
    [msg EXCEPT !.alternatives =
        Append(@, [contentType |-> contentType, writeFunc |-> writeFunc])]

\* Builds a File from a name and a byte source.
fileFromReader(name, buffer) ==
    [file |-> [Name |-> name, Writer |-> writeFuncFromBuffer(buffer)], err |-> Nil]

appendFile(files, file) == Append(files, file)

---------------------------------------------------------------------------
(* msg_template.go.  Each operation maps a Msg and its arguments to the    *)
(* Msg afterwards, the error returned and the number of engine executions. *)

\* Mutant: the nil check is missing and the engine is handed the nil template.
fileFromTextTemplate_NoNilCheck(name, tpl, data) ==
    LET r == IF tpl = NilTpl THEN [out |-> <<>>, err |-> errEngine]
             ELSE TextExecute(tpl, data)
    IN  IF r.err # Nil
        THEN [file |-> NoFile, err |-> errTplExecuteFailed(r.err), execd |-> 1]
        ELSE LET f == fileFromReader(name, r.out)
             IN  [file |-> f.file, err |-> f.err, execd |-> 1]

fileFromTextTemplate(name, tpl, data) ==
    IF tpl = NilTpl
    THEN [file |-> NoFile, err |-> errTplPointerNil, execd |-> 0]
    ELSE LET r == TextExecute(tpl, data)
         IN  IF r.err # Nil
             THEN [file |-> NoFile, err |-> errTplExecuteFailed(r.err), execd |-> 1]
             ELSE LET f == fileFromReader(name, r.out)
                  IN  [file |-> f.file, err |-> f.err, execd |-> 1]

\* Mutant: the HTML variant renders with the text engine.
fileFromHTMLTemplate_TextEngine(name, tpl, data) ==
    IF tpl = NilTpl
    THEN [file |-> NoFile, err |-> errTplPointerNil, execd |-> 0]
    ELSE LET r == TextExecute(tpl, data)
         IN  IF r.err # Nil
             THEN [file |-> NoFile, err |-> errTplExecuteFailed(r.err), execd |-> 1]
             ELSE LET f == fileFromReader(name, r.out)
                  IN  [file |-> f.file, err |-> f.err, execd |-> 1]

fileFromHTMLTemplate(name, tpl, data) ==
    IF tpl = NilTpl
    THEN [file |-> NoFile, err |-> errTplPointerNil, execd |-> 0]
    ELSE LET r == HTMLExecute(tpl, data)
         IN  IF r.err # Nil
             THEN [file |-> NoFile, err |-> errTplExecuteFailed(r.err), execd |-> 1]
             ELSE LET f == fileFromReader(name, r.out)
                  IN  [file |-> f.file, err |-> f.err, execd |-> 1]

SetBodyTextTemplate(msg, tpl, data) ==
    IF tpl = NilTpl
    THEN [m |-> msg, err |-> errTplPointerNil, execd |-> 0]
    ELSE LET r == TextExecute(tpl, data)
         IN  IF r.err # Nil
             THEN [m |-> msg, err |-> errTplExecuteFailed(r.err), execd |-> 1]
             ELSE [m |-> SetBodyWriter(msg, TypeTextPlain, writeFuncFromBuffer(r.out)),
                   err |-> Nil, execd |-> 1]

\* Mutant: the rendering is added as an alternative instead of replacing the body.
SetBodyHTMLTemplate_AsAlternative(msg, tpl, data) ==
    IF tpl = NilTpl
    THEN [m |-> msg, err |-> errTplPointerNil, execd |-> 0]
    ELSE LET r == HTMLExecute(tpl, data)
         IN  IF r.err # Nil
             THEN [m |-> msg, err |-> errTplExecuteFailed(r.err), execd |-> 1]
             ELSE [m |-> AddAlternativeWriter(msg, TypeTextHTML, writeFuncFromBuffer(r.out)),
                   err |-> Nil, execd |-> 1]

SetBodyHTMLTemplate(msg, tpl, data) ==
    IF tpl = NilTpl
    THEN [m |-> msg, err |-> errTplPointerNil, execd |-> 0]
    ELSE LET r == HTMLExecute(tpl, data)
         IN  IF r.err # Nil
             THEN [m |-> msg, err |-> errTplExecuteFailed(r.err), execd |-> 1]
             ELSE [m |-> SetBodyWriter(msg, TypeTextHTML, writeFuncFromBuffer(r.out)),
                   err |-> Nil, execd |-> 1]

\* Mutant: the buffer is installed before the engine's error is looked at.
AddAlternativeTextTemplate_InstallFirst(msg, tpl, data) ==
    IF tpl = NilTpl
    THEN [m |-> msg, err |-> errTplPointerNil, execd |-> 0]
    ELSE LET r == TextExecute(tpl, data)
             installed == AddAlternativeWriter(msg, TypeTextPlain, writeFuncFromBuffer(r.out))
         IN  IF r.err # Nil
             THEN [m |-> installed, err |-> errTplExecuteFailed(r.err), execd |-> 1]
             ELSE [m |-> installed, err |-> Nil, execd |-> 1]

AddAlternativeTextTemplate(msg, tpl, data) ==
    IF tpl = NilTpl
    THEN [m |-> msg, err |-> errTplPointerNil, execd |-> 0]
    ELSE LET r == TextExecute(tpl, data)
         IN  IF r.err # Nil
             THEN [m |-> msg, err |-> errTplExecuteFailed(r.err), execd |-> 1]
             ELSE [m |-> AddAlternativeWriter(msg, TypeTextPlain, writeFuncFromBuffer(r.out)),
                   err |-> Nil, execd |-> 1]

\* Mutant: the content type is taken from the text variant.
AddAlternativeHTMLTemplate_PlainType(msg, tpl, data) ==
    IF tpl = NilTpl
    THEN [m |-> msg, err |-> errTplPointerNil, execd |-> 0]
    ELSE LET r == HTMLExecute(tpl, data)
         IN  IF r.err # Nil
             THEN [m |-> msg, err |-> errTplExecuteFailed(r.err), execd |-> 1]
             ELSE [m |-> AddAlternativeWriter(msg, TypeTextPlain, writeFuncFromBuffer(r.out)),
                   err |-> Nil, execd |-> 1]

AddAlternativeHTMLTemplate(msg, tpl, data) ==
    IF tpl = NilTpl
    THEN [m |-> msg, err |-> errTplPointerNil, execd |-> 0]
    ELSE LET r == HTMLExecute(tpl, data)
         IN  IF r.err # Nil
             THEN [m |-> msg, err |-> errTplExecuteFailed(r.err), execd |-> 1]
             ELSE [m |-> AddAlternativeWriter(msg, TypeTextHTML, writeFuncFromBuffer(r.out)),
                   err |-> Nil, execd |-> 1]

\* Mutant: the file is appended before the error is looked at.
AttachTextTemplate_AppendFirst(msg, name, tpl, data) ==
    LET f == fileFromTextTemplate(name, tpl, data)
        appended == [msg EXCEPT !.attachments = appendFile(@, f.file)]
    IN  IF f.err # Nil
        THEN [m |-> appended, err |-> errAttachFailed(f.err), execd |-> f.execd]
        ELSE [m |-> appended, err |-> Nil, execd |-> f.execd]

AttachTextTemplate(msg, name, tpl, data) ==
    LET f == fileFromTextTemplate(name, tpl, data)
    IN  IF f.err # Nil
        THEN [m |-> msg, err |-> errAttachFailed(f.err), execd |-> f.execd]
        ELSE [m |-> [msg EXCEPT !.attachments = appendFile(@, f.file)],
              err |-> Nil, execd |-> f.execd]

\* Mutant: the file is put at the head of the attachments.
AttachHTMLTemplate_Prepend(msg, name, tpl, data) ==
    LET f == fileFromHTMLTemplate(name, tpl, data)
    IN  IF f.err # Nil
        THEN [m |-> msg, err |-> errAttachFailed(f.err), execd |-> f.execd]
        ELSE [m |-> [msg EXCEPT !.attachments = <<f.file>> \o @],
              err |-> Nil, execd |-> f.execd]

AttachHTMLTemplate(msg, name, tpl, data) ==
    LET f == fileFromHTMLTemplate(name, tpl, data)
    IN  IF f.err # Nil
        THEN [m |-> msg, err |-> errAttachFailed(f.err), execd |-> f.execd]
        ELSE [m |-> [msg EXCEPT !.attachments = appendFile(@, f.file)],
              err |-> Nil, execd |-> f.execd]

\* Mutant: the file is appended to the attachments.
EmbedTextTemplate_IntoAttachments(msg, name, tpl, data) ==
    LET f == fileFromTextTemplate(name, tpl, data)
    IN  IF f.err # Nil
        THEN [m |-> msg, err |-> errEmbedFailed(f.err), execd |-> f.execd]
        ELSE [m |-> [msg EXCEPT !.attachments = appendFile(@, f.file)],
              err |-> Nil, execd |-> f.execd]

EmbedTextTemplate(msg, name, tpl, data) ==
    LET f == fileFromTextTemplate(name, tpl, data)
    IN  IF f.err # Nil
        THEN [m |-> msg, err |-> errEmbedFailed(f.err), execd |-> f.execd]
        ELSE [m |-> [msg EXCEPT !.embeds = appendFile(@, f.file)],
              err |-> Nil, execd |-> f.execd]

\* Mutant: the failure is reported with the attach operation's message.
EmbedHTMLTemplate_AttachMessage(msg, name, tpl, data) ==
    LET f == fileFromHTMLTemplate(name, tpl, data)
    IN  IF f.err # Nil
        THEN [m |-> msg, err |-> errAttachFailed(f.err), execd |-> f.execd]
        ELSE [m |-> [msg EXCEPT !.embeds = appendFile(@, f.file)],
              err |-> Nil, execd |-> f.execd]

EmbedHTMLTemplate(msg, name, tpl, data) ==
    LET f == fileFromHTMLTemplate(name, tpl, data)
    IN  IF f.err # Nil
        THEN [m |-> msg, err |-> errEmbedFailed(f.err), execd |-> f.execd]
        ELSE [m |-> [msg EXCEPT !.embeds = appendFile(@, f.file)],
              err |-> Nil, execd |-> f.execd]

---------------------------------------------------------------------------
(* The state machine: a caller composing one Msg, one call at a time *)

SetBodyOps == {"SetBodyTextTemplate", "SetBodyHTMLTemplate"}

AlternativeOps == {"AddAlternativeTextTemplate", "AddAlternativeHTMLTemplate"}

AttachOps == {"AttachTextTemplate", "AttachHTMLTemplate"}

EmbedOps == {"EmbedTextTemplate", "EmbedHTMLTemplate"}

TextOps == {"SetBodyTextTemplate", "AddAlternativeTextTemplate",
            "AttachTextTemplate", "EmbedTextTemplate"}

HTMLOps == {"SetBodyHTMLTemplate", "AddAlternativeHTMLTemplate",
            "AttachHTMLTemplate", "EmbedHTMLTemplate"}

Ops == TextOps \cup HTMLOps

NoCall == [op |-> "none", name |-> NoName, tpl |-> NilTpl, data |-> "a"]

Init ==
    /\ m = EmptyMsg
    /\ execs = 0
    /\ ret = Nil
    /\ call = NoCall
    /\ log = <<>>
    /\ sinks = <<>>

\* The engine budget of a run: a nil template never reaches the engine.
CanCall(tpl, budget) == tpl = NilTpl \/ execs < budget

\* One call returning r: the Msg, the spy counter and the returned error.
Return(r, op, name, tpl, data) ==
    /\ m' = r.m
    /\ execs' = execs + r.execd
    /\ ret' = r.err
    /\ call' = [op |-> op, name |-> name, tpl |-> tpl, data |-> data]
    /\ log' = IF r.err = Nil THEN Append(log, call') ELSE log
    /\ UNCHANGED sinks

CallSetBodyTextTemplate(budget) ==
    \E tpl \in Templates, data \in Data :
        /\ CanCall(tpl, budget)
        /\ Return(SetBodyTextTemplate(m, tpl, data), "SetBodyTextTemplate", NoName, tpl, data)

CallSetBodyHTMLTemplate(budget) ==
    \E tpl \in Templates, data \in Data :
        /\ CanCall(tpl, budget)
        /\ Return(SetBodyHTMLTemplate(m, tpl, data), "SetBodyHTMLTemplate", NoName, tpl, data)

CallAddAlternativeTextTemplate(budget) ==
    \E tpl \in Templates, data \in Data :
        /\ CanCall(tpl, budget)
        /\ Return(AddAlternativeTextTemplate(m, tpl, data),
                  "AddAlternativeTextTemplate", NoName, tpl, data)

CallAddAlternativeHTMLTemplate(budget) ==
    \E tpl \in Templates, data \in Data :
        /\ CanCall(tpl, budget)
        /\ Return(AddAlternativeHTMLTemplate(m, tpl, data),
                  "AddAlternativeHTMLTemplate", NoName, tpl, data)

CallAttachTextTemplate(budget) ==
    \E name \in Names, tpl \in Templates, data \in Data :
        /\ CanCall(tpl, budget)
        /\ Return(AttachTextTemplate(m, name, tpl, data), "AttachTextTemplate", name, tpl, data)

CallAttachHTMLTemplate(budget) ==
    \E name \in Names, tpl \in Templates, data \in Data :
        /\ CanCall(tpl, budget)
        /\ Return(AttachHTMLTemplate(m, name, tpl, data), "AttachHTMLTemplate", name, tpl, data)

CallEmbedTextTemplate(budget) ==
    \E name \in Names, tpl \in Templates, data \in Data :
        /\ CanCall(tpl, budget)
        /\ Return(EmbedTextTemplate(m, name, tpl, data), "EmbedTextTemplate", name, tpl, data)

CallEmbedHTMLTemplate(budget) ==
    \E name \in Names, tpl \in Templates, data \in Data :
        /\ CanCall(tpl, budget)
        /\ Return(EmbedHTMLTemplate(m, name, tpl, data), "EmbedHTMLTemplate", name, tpl, data)

Compose(budget) ==
    \/ CallSetBodyTextTemplate(budget)
    \/ CallSetBodyHTMLTemplate(budget)
    \/ CallAddAlternativeTextTemplate(budget)
    \/ CallAddAlternativeHTMLTemplate(budget)
    \/ CallAttachTextTemplate(budget)
    \/ CallAttachHTMLTemplate(budget)
    \/ CallEmbedTextTemplate(budget)
    \/ CallEmbedHTMLTemplate(budget)

\* The producers of a Msg, in serialization order.
Producers(msg) ==
    [i \in 1..Len(msg.body) |-> msg.body[i].writeFunc]
    \o [i \in 1..Len(msg.alternatives) |-> msg.alternatives[i].writeFunc]
    \o [i \in 1..Len(msg.attachments) |-> msg.attachments[i].Writer]
    \o [i \in 1..Len(msg.embeds) |-> msg.embeds[i].Writer]

\* The Msg after each of its producers has been invoked once.
Written(msg) ==
    [body |-> [i \in 1..Len(msg.body) |->
                 [msg.body[i] EXCEPT !.writeFunc = WriteFunc(@).w]],
     alternatives |-> [i \in 1..Len(msg.alternatives) |->
                 [msg.alternatives[i] EXCEPT !.writeFunc = WriteFunc(@).w]],
     attachments |-> [i \in 1..Len(msg.attachments) |->
                 [msg.attachments[i] EXCEPT !.Writer = WriteFunc(@).w]],
     embeds |-> [i \in 1..Len(msg.embeds) |->
                 [msg.embeds[i] EXCEPT !.Writer = WriteFunc(@).w]]]

\* One serialization pass: every producer of the Msg is invoked once, each
\* on a fresh sink.  A sink records the buffer its producer was wrapped
\* around and the bytes it received.
WriteTo ==
    /\ Len(sinks) < MaxPasses
    /\ sinks' = Append(sinks, [i \in 1..Len(Producers(m)) |->
                   [buf |-> Producers(m)[i].buf, out |-> WriteFunc(Producers(m)[i]).out]])
    /\ m' = Written(m)
    /\ UNCHANGED <<execs, ret, call, log>>

Next == Compose(MaxExecs)

Spec == Init /\ [][Next]_vars

\* Composition followed and interleaved by serialization passes.
NextWrite == Compose(MaxExecs - 1) \/ WriteTo

SpecWrite == Init /\ [][NextWrite]_vars

---------------------------------------------------------------------------
(* Vocabulary of the properties *)

\* a step in which one of the eight operations was called
Called == call'.op \in Ops

\* the last call returned nil / a step in which a call returned nil
Succeeded == call.op \in Ops /\ ret = Nil

SucceededStep == Called /\ ret' = Nil /\ log' # log

\* the producer a successful call of op installed in msg
Installed(msg, op) ==
    IF op \in SetBodyOps THEN msg.body[1].writeFunc
    ELSE IF op \in AlternativeOps THEN msg.alternatives[Len(msg.alternatives)].writeFunc
    ELSE IF op \in AttachOps THEN msg.attachments[Len(msg.attachments)].Writer
    ELSE msg.embeds[Len(msg.embeds)].Writer

\* the engine's verdict on a call's template and data
EngineFails(c) ==
    IF c.op \in TextOps THEN TextExecute(c.tpl, c.data).err # Nil
    ELSE HTMLExecute(c.tpl, c.data).err # Nil

\* one of the eight operations applied to msg with the arguments of call c
Invoke(msg, c) ==
    CASE c.op = "SetBodyTextTemplate" -> SetBodyTextTemplate(msg, c.tpl, c.data)
      [] c.op = "SetBodyHTMLTemplate" -> SetBodyHTMLTemplate(msg, c.tpl, c.data)
      [] c.op = "AddAlternativeTextTemplate" -> AddAlternativeTextTemplate(msg, c.tpl, c.data)
      [] c.op = "AddAlternativeHTMLTemplate" -> AddAlternativeHTMLTemplate(msg, c.tpl, c.data)
      [] c.op = "AttachTextTemplate" -> AttachTextTemplate(msg, c.name, c.tpl, c.data)
      [] c.op = "AttachHTMLTemplate" -> AttachHTMLTemplate(msg, c.name, c.tpl, c.data)
      [] c.op = "EmbedTextTemplate" -> EmbedTextTemplate(msg, c.name, c.tpl, c.data)
      [] c.op = "EmbedHTMLTemplate" -> EmbedHTMLTemplate(msg, c.name, c.tpl, c.data)

\* the Msg reached from the empty Msg by the calls of l alone, in order
RECURSIVE Replay(_)
Replay(l) ==
    IF l = <<>> THEN EmptyMsg
    ELSE Invoke(Replay(SubSeq(l, 1, Len(l) - 1)), l[Len(l)]).m

IsPrefix(s, t) == Len(s) <= Len(t) /\ SubSeq(t, 1, Len(s)) = s

---------------------------------------------------------------------------
(* Properties *)

\* C1: a call of any of the eight operations that returns a failure (nil
\* template or failed evaluation) leaves the body slot, the alternative
\* bodies, the attachments and the embeds exactly as they were.
C1_FailureLeavesMsgUnchanged ==
    [][(Called /\ ret' # Nil) => m' = m]_vars

\* a call failed in evaluation on a Msg that already holds parts
C1_Witness ==
    /\ call.op \in Ops
    /\ ret # Nil
    /\ call.tpl = TplBroken
    /\ m # EmptyMsg

\* C2: a call with a nil template fails with the nil-template error as its
\* cause, whichever of the eight operations is called, and the count of
\* engine executions is the same before and after the call.
C2_NilTemplateFailsWithoutEngine ==
    [][(Called /\ call'.tpl = NilTpl) =>
            /\ ret' # Nil
            /\ RootCause(ret') = "template pointer is nil"
            /\ \A i \in 1..Len(ret') : ret'[i] # "failed to execute template"
            /\ execs' = execs]_vars

\* a nil-template attach was refused after the engine had already run
C2_Witness ==
    /\ call.op \in AttachOps
    /\ call.tpl = NilTpl
    /\ ret # Nil
    /\ execs > 0

\* C3: after two set-body calls in succession that both succeeded, the body
\* slot holds exactly one part, with the content type and the rendering of
\* the second call.
C3_LastSetBodyWins ==
    [][(/\ Succeeded /\ call.op \in SetBodyOps
        /\ SucceededStep /\ call'.op \in SetBodyOps) =>
            /\ Len(m'.body) = 1
            /\ m'.body[1].contentType =
                 (IF call'.op = "SetBodyTextTemplate" THEN "text/plain" ELSE "text/html")
            /\ WriteFunc(m'.body[1].writeFunc).out =
                 (IF call'.op = "SetBodyTextTemplate"
                  THEN TextExecute(call'.tpl, call'.data).out
                  ELSE HTMLExecute(call'.tpl, call'.data).out)]_vars

\* two set-body calls succeeded one after the other with different renderings
C3_Witness ==
    /\ Len(log) = 2
    /\ log[1].op \in SetBodyOps
    /\ log[2].op \in SetBodyOps
    /\ log[1].data # log[2].data
    /\ execs = 2
    /\ Succeeded

\* C4: attaching or embedding a template whose evaluation fails returns an
\* error that names the target (attach or embed), then the template
\* execution failure, then the engine's own error; and the length of the
\* attachments (resp. embeds) is unchanged.
C4_FailedAttachIsWrapped ==
    [][(/\ Called
        /\ call'.op \in AttachOps \cup EmbedOps
        /\ call'.tpl # NilTpl
        /\ EngineFails(call')) =>
            /\ Len(ret') >= 3
            /\ ret'[1] = (IF call'.op \in AttachOps THEN "failed to attach template"
                          ELSE "failed to embed template")
            /\ ret'[2] = "failed to execute template"
            /\ SubSeq(ret', 3, Len(ret')) = errEngine
            /\ Len(m'.attachments) = Len(m.attachments)
            /\ Len(m'.embeds) = Len(m.embeds)]_vars

\* an HTML embed failed in evaluation while an embed was already present
C4_Witness ==
    /\ call.op = "EmbedHTMLTemplate"
    /\ call.tpl = TplBroken
    /\ ret # Nil
    /\ Len(m.embeds) = 1

\* C5: with markup-significant data, a successful HTML operation stores the
\* escaped rendering and a successful text operation stores the raw one.
C5_EscapingFollowsOperation ==
    (Succeeded /\ call.data = "<" /\ call.tpl = TplGreeting) =>
        WriteFunc(Installed(m, call.op)).out =
            (IF call.op \in HTMLOps THEN <<"<", "p", ">", "&", "l", "t", ";">>
             ELSE <<"<", "p", ">", "<">>)

\* an HTML attachment was rendered from markup-significant data
C5_Witness ==
    /\ Succeeded
    /\ call.op = "AttachHTMLTemplate"
    /\ call.data = "<"

\* C6: the content type of an installed body or alternative body is fixed
\* by the operation: text/plain for the text operations, text/html for the
\* HTML operations, whatever the template, the data and the rendering.
C6_ContentTypeByOperation ==
    /\ (Succeeded /\ call.op \in SetBodyOps) =>
          m.body[1].contentType =
             (IF call.op = "SetBodyTextTemplate" THEN "text/plain" ELSE "text/html")
    /\ (Succeeded /\ call.op \in AlternativeOps) =>
          m.alternatives[Len(m.alternatives)].contentType =
             (IF call.op = "AddAlternativeTextTemplate" THEN "text/plain" ELSE "text/html")

\* a text alternative was installed whose rendering contains markup
C6_Witness ==
    /\ Succeeded
    /\ call.op = "AddAlternativeTextTemplate"
    /\ call.data = "<"
    /\ Len(m.alternatives) = 2

\* C7: every invocation of an installed producer writes exactly the buffer
\* it was wrapped around, in every serialization pass, and two passes over
\* the same producers write the same bytes.
C7_ProducerIsIdempotent ==
    /\ \A p \in 1..Len(sinks) : \A i \in 1..Len(sinks[p]) :
          sinks[p][i].out = sinks[p][i].buf
    /\ \A p, q \in 1..Len(sinks) : \A i \in 1..Len(sinks[p]) :
          (i <= Len(sinks[q]) /\ sinks[p][i].buf = sinks[q][i].buf) =>
              sinks[p][i].out = sinks[q][i].out
    /\ \A i \in 1..Len(Producers(m)) :
          WriteFunc(Producers(m)[i]).out = Producers(m)[i].buf

\* the same non-empty producer was invoked in two passes
C7_Witness ==
    /\ Len(sinks) = 2
    /\ Len(sinks[1]) = 1
    /\ Len(sinks[2]) = 1
    /\ sinks[1][1].buf # <<>>
    /\ Len(log) = 1

\* C8: the Msg always equals the Msg obtained by applying only the calls
\* that succeeded, in order; failed calls leave no residue.
C8_FailuresLeaveNoResidue ==
    m = Replay(log)

\* a call failed in evaluation and a later call succeeded
C8_Witness ==
    /\ execs = 2
    /\ Len(log) = 1
    /\ Succeeded

\* C9: a successful add-alternative, attach or embed appends exactly one
\* element at the tail of its sequence (a File with the caller's name for
\* attach and embed) and keeps the earlier elements in place; no call removes
\* or reorders attachments or embeds.
C9_AppendAtTail ==
    [][Called =>
        /\ IsPrefix(m.attachments, m'.attachments)
        /\ IsPrefix(m.embeds, m'.embeds)
        /\ (SucceededStep /\ call'.op \in AlternativeOps) =>
              /\ Len(m'.alternatives) = Len(m.alternatives) + 1
              /\ IsPrefix(m.alternatives, m'.alternatives)
        /\ (SucceededStep /\ call'.op \in AttachOps) =>
              /\ Len(m'.attachments) = Len(m.attachments) + 1
              /\ m'.attachments[Len(m'.attachments)].Name = call'.name
        /\ (SucceededStep /\ call'.op \in EmbedOps) =>
              /\ Len(m'.embeds) = Len(m.embeds) + 1
              /\ m'.embeds[Len(m'.embeds)].Name = call'.name]_vars

\* a second, differently named attachment was appended
C9_Witness ==
    /\ Succeeded
    /\ call.op \in AttachOps
    /\ Len(m.attachments) = 2
    /\ m.attachments[1].Name # m.attachments[2].Name

\* C10: a successful call changes only its own collection among the body
\* slot, the alternative bodies, the attachments and the embeds.
C10_OnlyTargetChanges ==
    [][SucceededStep =>
        /\ call'.op \notin SetBodyOps => m'.body = m.body
        /\ call'.op \notin AlternativeOps => m'.alternatives = m.alternatives
        /\ call'.op \notin AttachOps => m'.attachments = m.attachments
        /\ call'.op \notin EmbedOps => m'.embeds = m.embeds]_vars

\* an embed was added to a Msg that holds a body
C10_Witness ==
    /\ Succeeded
    /\ call.op \in EmbedOps
    /\ Len(m.body) = 1
    /\ Len(m.embeds) = 1

=============================================================================
